---- MODULE Spec2Model ----
(***************************************************************************)
(* Ring dataset generation, balanced interleaved permutation, train/dev/   *)
(* test split and sampler iteration of brainspy-tasks                      *)
(* (bspytasks/ring/data.py and bspytasks/datasets/ring.py).                *)
(*                                                                         *)
(* Arrays are sequences (1-based); the index values stored in them are the *)
(* program's 0-based indices, so a[i] of the program is a[i + 1] here.     *)
(* Every random draw of the program is an input of the action that makes   *)
(* it, drawn from the set of values the draw can return.                   *)
(***************************************************************************)
EXTENDS Integers, Sequences, FiniteSets

(***************************************************************************)
(* Bounds of the model.                                                    *)
(***************************************************************************)
\* largest argument of a direct balanced_permutation call and largest
\* sample_no given to RingDatasetGenerator when only the dataset is built
MaxN == 6
\* largest sample_no of a RingDatasetGenerator dataset that is then split
MaxLen == 4
\* largest sample_no of a direct RingDataGenerator.ring call
MaxSamples == 2
\* largest length of each array given to a direct process_dataset call
MaxClass == 3
\* largest sample_no given to the RingDataGenerator constructor
MaxRingSamples == 4
\* number of full iterations (epochs) made over one loader
MaxEpochs == 2
\* split percentages are the rationals p / FracDen
FracDen == 10

\* Fixed-point resolution of coordinates, radii and gaps: 1.0 is Unit.
Unit == 2 * 2 * 2

(***************************************************************************)
(* Helpers for arrays.                                                     *)
(***************************************************************************)
Range(s) == {s[i] : i \in DOMAIN s}

IsInjective(s) == \A i, j \in DOMAIN s : s[i] = s[j] => i = j

\* a[idx] for an integer index array idx (numpy / torch fancy indexing)
Take(a, idx) == [i \in 1..Len(idx) |-> a[idx[i] + 1]]

\* a[lo:hi] of Python for 0 <= lo, 0 <= hi
Slice(a, lo, hi) ==
    LET h == IF hi < Len(a) THEN hi ELSE Len(a)
    IN  IF lo >= h THEN <<>> ELSE [i \in 1..(h - lo) |-> a[lo + i]]

\* a[::-1]
Reverse(a) == [i \in 1..Len(a) |-> a[Len(a) + 1 - i]]

Count(s, v) == Cardinality({i \in DOMAIN s : s[i] = v})

RECURSIVE PermsOf(_)
PermsOf(S) ==
    IF S = {} THEN {<<>>}
    ELSE UNION {{<<x>> \o p : p \in PermsOf(S \ {x})} : x \in S}

\* the values torch.randperm(n) / np.random.permutation(n) can return
randperm(n) == PermsOf(0..(n - 1))

(***************************************************************************)
(* balanced_permutation (ring/data.py) and its dataset-level variant       *)
(* get_balanced_distribution_indices.                                      *)
(***************************************************************************)
\* result.append(class0[i]); result.append(class1[i]) for i in range(len(class0))
interleave(c0, c1) ==
    [i \in 1..(2 * Len(c0)) |->
        IF i % 2 = 1 THEN c0[(i + 1) \div 2] ELSE c1[i \div 2]]

parity_class0(permuted) == SelectSeq(permuted, LAMBDA v : v % 2 = 0)
parity_class1(permuted) == SelectSeq(permuted, LAMBDA v : v % 2 = 1)

\* the assertion of balanced_permutation
balanced_permutation_assert(permuted) ==
    Len(parity_class0(permuted)) = Len(parity_class1(permuted))

balanced_permutation_halves(permuted) ==
    interleave(SelectSeq(permuted, LAMBDA v : v < Len(permuted) \div 2),
               SelectSeq(permuted, LAMBDA v : v >= Len(permuted) \div 2))

\* the value returned when the assertion holds
balanced_permutation(permuted) ==
    interleave(parity_class0(permuted), parity_class1(permuted))

half_class0(permuted, data_length) ==
    SelectSeq(permuted, LAMBDA v : v < data_length \div 2)
half_class1(permuted, data_length) ==
    SelectSeq(permuted, LAMBDA v : v >= data_length \div 2)

get_balanced_distribution_indices_assert(permuted, data_length) ==
    Len(half_class0(permuted, data_length)) = Len(half_class1(permuted, data_length))

get_balanced_distribution_indices_parity(permuted, data_length) ==
    interleave(parity_class0(permuted), parity_class1(permuted))

get_balanced_distribution_indices(permuted, data_length) ==
    interleave(half_class0(permuted, data_length), half_class1(permuted, data_length))

(***************************************************************************)
(* RingDatasetGenerator (ring/data.py).                                    *)
(*                                                                         *)
(* A point of get_class_points is kept as the region it was sampled for    *)
(* (in_limit, out_limit, in units of 1 / (2 * Unit)) and the index k of    *)
(* its grid angle; its jitter along the radius is not kept.                *)
(***************************************************************************)
\* the values of gap, in units of 1 / Unit, strictly between 0 and 1
Gaps == 1..(Unit - 1)

\* limit = (1 - gap) / 2, in units of 1 / (2 * Unit)
limit_of(g) == Unit - g

get_class_points(sample_no, in_limit, out_limit) ==
    [k \in 1..sample_no |-> [lo |-> in_limit, hi |-> out_limit, k |-> k - 1]]

zeros(n) == [i \in 1..n |-> 0]
ones(n) == [i \in 1..n |-> 1]

\* points[indices], targets[indices] of RingDatasetGenerator.generate_data
\* for an even sample_no; permuted is the draw of np.random.permutation
generate_data_points(sample_no, g, permuted) ==
    LET indices == get_balanced_distribution_indices(permuted, sample_no)
        half == sample_no \div 2
        points == get_class_points(half, 0, limit_of(g))
                  \o get_class_points(half, 2 * Unit - limit_of(g), 2 * Unit)
    IN  Take(points, indices)

generate_data_targets_unpermuted(sample_no, g, permuted) ==
    zeros(sample_no \div 2) \o ones(sample_no \div 2)

generate_data_targets(sample_no, g, permuted) ==
    LET indices == get_balanced_distribution_indices(permuted, sample_no)
        half == sample_no \div 2
    IN  Take(zeros(half) \o ones(half), indices)

(***************************************************************************)
(* RingDataGenerator (datasets/ring.py).                                   *)
(*                                                                         *)
(* A sample is [x, y, id]: its coordinates in units of 1 / Unit and its    *)
(* position in the array it was first stored in (the position is not part  *)
(* of the program's row; it names the row in the properties).  The norm of *)
(* a sample is compared with a radius r through the squares, which is the  *)
(* comparison of sqrt(x^2 + y^2) with r in exact arithmetic.               *)
(***************************************************************************)
norm_lt(pt, r) == r > 0 /\ pt.x * pt.x + pt.y * pt.y < r * r
norm_gt(pt, r) == r < 0 \/ pt.x * pt.x + pt.y * pt.y > r * r

\* the label values: 0.0, 1.0, NaN, and any other float left in the memory
\* np.empty returned
Label0 == "0.0"
Label1 == "1.0"
NaN == "nan"
Stale == "stale"
UninitValues == {Label0, Label1, NaN, Stale}

\* labels = np.empty(n) followed by the four masked assignments of ring, in
\* the order of the code; empty is the content np.empty returned
ring_labels(smp, inner_radius, g, outer_radius, empty) ==
    LET l1 == [i \in 1..Len(smp) |->
                 IF norm_lt(smp[i], inner_radius) THEN Label0 ELSE empty[i]]
        l2 == [i \in 1..Len(smp) |->
                 IF norm_lt(smp[i], outer_radius) /\ norm_gt(smp[i], inner_radius + g)
                 THEN Label1 ELSE l1[i]]
        l3 == [i \in 1..Len(smp) |->
                 IF norm_gt(smp[i], outer_radius) THEN NaN ELSE l2[i]]
        l4 == [i \in 1..Len(smp) |->
                 IF norm_gt(smp[i], inner_radius) /\ norm_lt(smp[i], inner_radius + g)
                 THEN NaN ELSE l3[i]]
    IN  l4

\* TRUE when one of the four masks of ring selects the sample
ring_assigns(pt, inner_radius, g, outer_radius) ==
    \/ norm_lt(pt, inner_radius)
    \/ norm_lt(pt, outer_radius) /\ norm_gt(pt, inner_radius + g)
    \/ norm_gt(pt, outer_radius)
    \/ norm_gt(pt, inner_radius) /\ norm_lt(pt, inner_radius + g)

\* the contents np.empty(n) can have, told apart only where ring reads them
EmptyContents(smp, inner_radius, g, outer_radius) ==
    {e \in [1..Len(smp) -> UninitValues] :
        \A i \in 1..Len(smp) :
            ring_assigns(smp[i], inner_radius, g, outer_radius) => e[i] = Stale}

\* data[labels == v]
select_label(smp, lab, v) ==
    LET idx == SelectSeq([i \in 1..Len(smp) |-> i], LAMBDA i : lab[i] = v)
    IN  [j \in 1..Len(idx) |-> smp[idx[j]]]

Min(a, b) == IF a < b THEN a ELSE b
Max(a, b) == IF a < b THEN b ELSE a

\* subsample: permutation is the draw of np.random.permutation(max_array)
subsample(c0, c1, permutation) ==
    LET nr_samples == Min(Len(c0), Len(c1))
        max_array == Max(Len(c0), Len(c1))
        ind == Slice(permutation, 0, nr_samples)
    IN  IF Len(c0) = max_array THEN <<Take(c0, ind), c1>>
        ELSE <<c0, Take(c1, ind)>>

\* the index arrays np.argsort(c, axis=0)[:, 0] can return: every ordering of
\* the rows by x ascending (the order of equal keys is not specified)
argsort_x(c) ==
    {s \in randperm(Len(c)) :
        \A i \in 1..(Len(c) - 1) : c[s[i] + 1].x <= c[s[i + 1] + 1].x}

\* sort: i0, i1 are the index arrays returned by argsort
sort(c0, c1, i0, i1) == <<Take(c0, i0), Take(c1, i1)>>

positive_y(c) == SelectSeq(c, LAMBDA r : r.y >= 0)
negative_y(c) == Reverse(SelectSeq(c, LAMBDA r : r.y < 0))

filter_and_reverse_inputs_dropping(c0, c1) ==
    positive_y(c0) \o positive_y(c1) \o negative_y(c1)

filter_and_reverse_inputs(c0, c1) ==
    (positive_y(c0) \o negative_y(c0)) \o (positive_y(c1) \o negative_y(c1))

filter_and_reverse_targets(c0, c1) ==
    zeros(Len(positive_y(c0) \o negative_y(c0)))
    \o ones(Len(positive_y(c1) \o negative_y(c1)))

\* the coordinates a sample is drawn from: a sub-grid of the square
\* [-outer_radius, outer_radius)^2 that has points inside the inner disk
\* (norm < 2), in the gap, in the annulus (6 < norm < 8), outside the unit
\* circle and on each boundary (norm = 2, 6, 8), with both signs of y
Pool ==
    { <<0, 0>>, <<1, -1>>, <<-1, 1>>,
      <<7, 0>>, <<-5, -5>>, <<0, 7>>, <<5, 5>>,
      <<2, 0>>, <<6, 0>>, <<-8, 0>>,
      <<4, 0>>, <<-8, -8>>, <<3, -2>> }

\* the Pool restricted to the points used when whole datasets are built
SmallPool == { <<0, 0>>, <<1, -1>>, <<7, 0>>, <<-5, -5>>, <<4, 0>> }

InSquare(c, outer_radius) ==
    /\ -outer_radius <= c[1] /\ c[1] < outer_radius
    /\ -outer_radius <= c[2] /\ c[2] < outer_radius

\* the arrays of n samples np.random.rand(n, 2) can give, over the pool
SampleArrays(pool, n, outer_radius) ==
    LET pts == {c \in pool : InSquare(c, outer_radius)}
    IN  {[i \in 1..n |-> [x |-> f[i][1], y |-> f[i][2], id |-> i - 1]] :
            f \in [1..n -> pts]}

\* the arrays a caller can give to process_dataset
ClassArrays(pool, n) ==
    {[i \in 1..n |-> [x |-> f[i][1], y |-> f[i][2], id |-> i - 1]] :
        f \in [1..n -> pool]}

\* the defaults of ring: inner_radius = 0.25, gap = 0.5, outer_radius = 1
inner_radius_default == Unit \div 4
gap_default == Unit \div 2
outer_radius_default == Unit

(***************************************************************************)
(* split and the samplers (ring/data.py).                                  *)
(*                                                                         *)
(* split_percentages is <<p0, p1, p2>>, standing for the fractions         *)
(* p0 / FracDen, p1 / FracDen, p2 / FracDen; sums and products of the      *)
(* fractions are exact.                                                    *)
(***************************************************************************)
Samplers == {"SubsetRandomSampler", "BalancedSubsetRandomSampler"}

Percentages ==
    {p \in (0..FracDen) \X (0..FracDen) \X (0..FracDen) :
        p[1] + p[2] + p[3] \in {FracDen - 1, FracDen}}

\* the default split_percentages, [0.8, 0.1, 0.1]
split_percentages_default ==
    <<(8 * FracDen) \div 10, FracDen \div 10, FracDen - (8 * FracDen) \div 10 - FracDen \div 10>>

\* assert np.sum(percentages) == 1
split_assert(pct, den) == pct[1] + pct[2] + pct[3] = den

max_train_index(pct, den, n) == (pct[1] * n) \div den
max_dev_index(pct, den, n) == ((pct[1] + pct[2]) * n) \div den
max_test_index(pct, den, n) == ((pct[1] + pct[2] + pct[3]) * n) \div den

train_index_of(ind, pct, den) ==
    Slice(ind, 0, max_train_index(pct, den, Len(ind)))
dev_index_of_from_start(ind, pct, den) ==
    Slice(ind, 0, max_dev_index(pct, den, Len(ind)))
dev_index_of(ind, pct, den) ==
    Slice(ind, max_train_index(pct, den, Len(ind)), max_dev_index(pct, den, Len(ind)))
test_index_of(ind, pct, den) ==
    Slice(ind, max_dev_index(pct, den, Len(ind)), max_test_index(pct, den, Len(ind)))

\* SubsetRandomSampler.__iter__ of torch (the default sampler of split):
\* (self.indices[i] for i in torch.randperm(len(self.indices)))
SubsetRandomSampler_iter(ind, permuted) == Take(ind, permuted)

BalancedSubsetRandomSampler_iter_repeating(ind, permuted) ==
    [i \in 1..Len(permuted) |-> ind[balanced_permutation(permuted)[1] + 1]]

\* BalancedSubsetRandomSampler.__iter__ when balanced_permutation returns:
\* (self.indices[i] for i in balanced_permutation(len(self.indices)))
BalancedSubsetRandomSampler_iter(ind, permuted) ==
    Take(ind, balanced_permutation(permuted))

VARIABLES
    call,              \* the last call made: its name, "none" before any
    args,              \* the arguments of the last call
    raised,            \* "none", or the error the last call halted with
    draws,             \* number of draws made from the random source
    permuted_indices,  \* the random permutation drawn by balanced_permutation
    result,            \* the value returned by a direct balanced_permutation call
    samples,           \* the samples returned by a direct ring call
    labels,            \* the labels returned by a direct ring call
    class0,            \* the class0 array given to a direct process_dataset call
    class1,            \* the class1 array given to a direct process_dataset call
    pc,                \* the statement of process_dataset to run next
    cur0,              \* the local class0 of process_dataset
    cur1,              \* the local class1 of process_dataset
    data,              \* the inputs returned by a direct process_dataset call
    data_targets,      \* the targets returned by a direct process_dataset call
    exists,            \* TRUE once a dataset object has been constructed
    inputs,            \* dataset.inputs
    targets,           \* dataset.targets (one value per row)
    gap,               \* dataset.gap (RingDatasetGenerator)
    archive,           \* the archives written by np.savez
    indices,           \* the permutation computed by split
    loaders,           \* <<>>, or the sampler class and the index list of each
                       \* of the three loaders returned by split
    loader,            \* the loader iterated (1 train, 2 dev, 3 test), 0 before
    epoch,             \* number of iterations started over that loader
    first_order,       \* the indices yielded by its first iteration, in order
    last_order         \* the indices yielded by its last iteration, in order

vars == <<call, args, raised, draws, permuted_indices, result, samples, labels,
          class0, class1, pc, cur0, cur1, data, data_targets, exists, inputs, targets, gap,
          archive, indices, loaders, loader, epoch, first_order, last_order>>

permVars == <<permuted_indices, result>>
ringVars == <<samples, labels, class0, class1, pc, cur0, cur1, data, data_targets>>
datasetVars == <<exists, inputs, targets, gap, archive>>
splitVars == <<indices, loaders>>
iterVars == <<loader, epoch, first_order, last_order>>

Init ==
    /\ call = "none"
    /\ args = <<>>
    /\ raised = "none"
    /\ draws = 0
    /\ permuted_indices = <<>>
    /\ result = <<>>
    /\ samples = <<>>
    /\ labels = <<>>
    /\ class0 = <<>>
    /\ class1 = <<>>
    /\ pc = "idle"
    /\ cur0 = <<>>
    /\ cur1 = <<>>
    /\ data = <<>>
    /\ data_targets = <<>>
    /\ exists = FALSE
    /\ inputs = <<>>
    /\ targets = <<>>
    /\ gap = 0
    /\ archive = <<>>
    /\ indices = <<>>
    /\ loaders = <<>>
    /\ loader = 0
    /\ epoch = 0
    /\ first_order = <<>>
    /\ last_order = <<>>

\* balanced_permutation(len_indices), called directly
BalancedPermutationCall ==
    /\ call = "none"
    /\ \E len_indices \in 0..MaxN : \E p \in randperm(len_indices) :
        /\ call' = "balanced_permutation"
        /\ args' = [len_indices |-> len_indices]
        /\ draws' = draws + 1
        /\ permuted_indices' = p
        /\ IF balanced_permutation_assert(p)
           THEN /\ raised' = "none"
                /\ result' = balanced_permutation(p)
           ELSE /\ raised' = "AssertionError"
                /\ result' = <<>>
    /\ UNCHANGED <<ringVars, datasetVars, splitVars, iterVars>>

generate_data_assert_dropped(sample_no) == TRUE

\* assert sample_no % 2 == 0 of RingDatasetGenerator.generate_data
generate_data_assert(sample_no) == sample_no % 2 = 0

\* RingDatasetGenerator(sample_no, gap, save_dir=save_dir): generate_data,
\* the length assertion and np.savez
NewRingDatasetGenerator(sample_nos, gaps, save_dirs) ==
    /\ call = "none"
    /\ \E sample_no \in sample_nos, g \in gaps, save_dir \in save_dirs :
        /\ call' = "RingDatasetGenerator"
        /\ args' = [sample_no |-> sample_no, gap |-> g, save_dir |-> save_dir]
        /\ IF ~generate_data_assert(sample_no)
           THEN /\ raised' = "AssertionError"
                /\ UNCHANGED <<draws, datasetVars>>
           ELSE \E p \in randperm(sample_no) :
                IF ~get_balanced_distribution_indices_assert(p, sample_no)
                THEN /\ raised' = "AssertionError"
                     /\ draws' = draws + 1
                     /\ UNCHANGED datasetVars
                ELSE LET pts == generate_data_points(sample_no, g, p)
                         tgs == generate_data_targets(sample_no, g, p)
                     IN  \* one permutation and the x and y jitter of two classes
                         /\ draws' = draws + 5
                         /\ IF Len(pts) # Len(tgs)
                            THEN /\ raised' = "AssertionError"
                                 /\ UNCHANGED datasetVars
                            ELSE /\ raised' = "none"
                                 /\ exists' = TRUE
                                 /\ inputs' = pts
                                 /\ targets' = tgs
                                 /\ gap' = g
                                 /\ archive' =
                                       IF save_dir = "None" THEN archive
                                       ELSE Append(archive,
                                               [gap |-> g, inputs |-> pts,
                                                targets |-> tgs])
    /\ UNCHANGED <<permVars, ringVars, splitVars, iterVars>>

\* RingDataGenerator.ring(sample_no, inner_radius, gap, outer_radius),
\* called directly
RingCall ==
    /\ call = "none"
    /\ \E sample_no \in 0..MaxSamples,
          inner_radius \in {inner_radius_default, Unit \div 2},
          g \in {0, gap_default},
          outer_radius \in {Unit \div 2, Unit, Unit + 1} :
        /\ call' = "ring"
        /\ args' = [sample_no |-> sample_no, inner_radius |-> inner_radius,
                    gap |-> g, outer_radius |-> outer_radius]
        /\ IF ~(outer_radius <= Unit)
           THEN \* assert outer_radius <= 1
                /\ raised' = "AssertionError"
                /\ UNCHANGED <<draws, samples, labels>>
           ELSE \E smp \in SampleArrays(Pool, sample_no, outer_radius) :
                \E empty \in EmptyContents(smp, inner_radius, g, outer_radius) :
                    /\ raised' = "none"
                    /\ draws' = draws + 1
                    /\ samples' = smp
                    /\ labels' = ring_labels(smp, inner_radius, g, outer_radius, empty)
    /\ UNCHANGED <<permVars, class0, class1, pc, cur0, cur1, data, data_targets,
                   datasetVars, splitVars, iterVars>>

\* the arrays given to a direct process_dataset call: both signs of y and
\* equal values of x occur
ProcessPool == { <<0, -1>>, <<1, 1>>, <<1, -1>> }

WithIdsFrom(c, first) == [i \in 1..Len(c) |-> [c[i] EXCEPT !.id = first + i - 1]]

\* RingDataGenerator.process_dataset(class0, class1), called directly: entry
ProcessDatasetCall ==
    /\ call = "none"
    /\ \E n0 \in 0..MaxClass, n1 \in 0..MaxClass :
       \E c0 \in ClassArrays(ProcessPool, n0), d1 \in ClassArrays(ProcessPool, n1) :
        /\ call' = "process_dataset"
        /\ args' = <<>>
        /\ class0' = c0
        /\ class1' = WithIdsFrom(d1, n0)
        /\ cur0' = c0
        /\ cur1' = WithIdsFrom(d1, n0)
        /\ pc' = "subsample"
    /\ UNCHANGED <<raised, draws, permVars, samples, labels, data, data_targets,
                   datasetVars, splitVars, iterVars>>

\* class0, class1 = self.subsample(class0, class1)
Subsample ==
    /\ call = "process_dataset"
    /\ pc = "subsample"
    /\ \E permutation \in randperm(Max(Len(cur0), Len(cur1))) :
        /\ cur0' = subsample(cur0, cur1, permutation)[1]
        /\ cur1' = subsample(cur0, cur1, permutation)[2]
    /\ draws' = draws + 1
    /\ pc' = "sort"
    /\ UNCHANGED <<call, args, raised, permVars, samples, labels, class0, class1,
                   data, data_targets, datasetVars, splitVars, iterVars>>

\* class0, class1 = self.sort(class0, class1)
Sort ==
    /\ call = "process_dataset"
    /\ pc = "sort"
    /\ \E i0 \in argsort_x(cur0), i1 \in argsort_x(cur1) :
        /\ cur0' = sort(cur0, cur1, i0, i1)[1]
        /\ cur1' = sort(cur0, cur1, i0, i1)[2]
    /\ pc' = "filter_and_reverse"
    /\ UNCHANGED <<call, args, raised, draws, permVars, samples, labels, class0,
                   class1, data, data_targets, datasetVars, splitVars, iterVars>>

\* return self.filter_and_reverse(class0, class1)
FilterAndReverse ==
    /\ call = "process_dataset"
    /\ pc = "filter_and_reverse"
    /\ data' = filter_and_reverse_inputs(cur0, cur1)
    /\ data_targets' = filter_and_reverse_targets(cur0, cur1)
    /\ pc' = "done"
    /\ UNCHANGED <<call, args, raised, draws, permVars, samples, labels, class0,
                   class1, cur0, cur1, datasetVars, splitVars, iterVars>>

\* RingDataGenerator(sample_no, gap, save_dir=save_dir): generate_data (ring
\* with its default radii, then process_dataset), the length assertion and
\* np.savez
NewRingDataGenerator(sample_nos, gaps, save_dirs) ==
    /\ call = "none"
    /\ \E sample_no \in sample_nos, g \in gaps, save_dir \in save_dirs :
       \E smp \in SampleArrays(SmallPool, sample_no, outer_radius_default) :
       \E empty \in EmptyContents(smp, inner_radius_default, g, outer_radius_default) :
       LET lab == ring_labels(smp, inner_radius_default, g, outer_radius_default, empty)
           c0 == select_label(smp, lab, Label0)
           c1 == select_label(smp, lab, Label1)
       IN  \E permutation \in randperm(Max(Len(c0), Len(c1))) :
           LET sub == subsample(c0, c1, permutation)
           IN  \E i0 \in argsort_x(sub[1]), i1 \in argsort_x(sub[2]) :
               LET srt == sort(sub[1], sub[2], i0, i1)
                   pts == filter_and_reverse_inputs(srt[1], srt[2])
                   tgs == filter_and_reverse_targets(srt[1], srt[2])
               IN  /\ call' = "RingDataGenerator"
                   /\ args' = [sample_no |-> sample_no, gap |-> g,
                               save_dir |-> save_dir]
                   /\ draws' = draws + 2
                   /\ IF Len(pts) # Len(tgs)
                      THEN /\ raised' = "AssertionError"
                           /\ UNCHANGED datasetVars
                      ELSE /\ raised' = "none"
                           /\ exists' = TRUE
                           /\ inputs' = pts
                           /\ targets' = tgs
                           /\ gap' = gap
                           /\ archive' =
                                 IF save_dir = "None" THEN archive
                                 ELSE Append(archive, [inputs |-> pts, targets |-> tgs])
    /\ UNCHANGED <<permVars, ringVars, splitVars, iterVars>>

\* split(dataset, batch_size, num_workers, sampler, split_percentages): the
\* index lists given to the three samplers, each wrapped in a DataLoader
Split(samplers, percentages) ==
    /\ call \in {"RingDatasetGenerator", "RingDataGenerator"}
    /\ raised = "none"
    /\ exists
    /\ \E sampler \in samplers, pct \in percentages :
        /\ call' = "split"
        /\ args' = [sampler |-> sampler, split_percentages |-> pct]
        /\ IF ~split_assert(pct, FracDen)
           THEN /\ raised' = "AssertionError"
                /\ UNCHANGED <<draws, splitVars>>
           ELSE \E p \in randperm(Len(inputs)) :
                /\ draws' = draws + 1
                /\ IF ~balanced_permutation_assert(p)
                   THEN /\ raised' = "AssertionError"
                        /\ UNCHANGED splitVars
                   ELSE LET ind == balanced_permutation(p)
                        IN  /\ raised' = "none"
                            /\ indices' = ind
                            /\ loaders' =
                                  [sampler |-> sampler,
                                   index |-> <<train_index_of(ind, pct, FracDen),
                                               dev_index_of(ind, pct, FracDen),
                                               test_index_of(ind, pct, FracDen)>>]
    /\ UNCHANGED <<permVars, ringVars, datasetVars, iterVars>>

\* one full iteration (an epoch) over one of the loaders returned by split:
\* the DataLoader asks its sampler for a new iterator and gathers the rows
\* at the indices it yields, in the order it yields them
Iterate ==
    /\ call \in {"split", "iter"}
    /\ raised = "none"
    /\ epoch < MaxEpochs
    /\ \E k \in 1..3 :
        /\ loader \in {0, k}
        /\ call' = "iter"
        /\ args' = [loader |-> k]
        /\ loader' = k
        /\ epoch' = epoch + 1
        /\ draws' = draws + 1
        /\ \E p \in randperm(Len(loaders.index[k])) :
            IF loaders.sampler = "SubsetRandomSampler"
            THEN LET order == SubsetRandomSampler_iter(loaders.index[k], p)
                 IN  /\ raised' = "none"
                     /\ first_order' = IF epoch = 0 THEN order ELSE first_order
                     /\ last_order' = order
            ELSE IF ~balanced_permutation_assert(p)
            THEN /\ raised' = "AssertionError"
                 /\ UNCHANGED <<first_order, last_order>>
            ELSE LET order == BalancedSubsetRandomSampler_iter(loaders.index[k], p)
                 IN  /\ raised' = "none"
                     /\ first_order' = IF epoch = 0 THEN order ELSE first_order
                     /\ last_order' = order
    /\ UNCHANGED <<permVars, ringVars, datasetVars, splitVars>>

SaveDirs == {"None", "dir"}

\* direct calls of balanced_permutation and construction of a
\* RingDatasetGenerator dataset
NextGen ==
    \/ BalancedPermutationCall
    \/ NewRingDatasetGenerator(0..MaxN, Gaps, SaveDirs)

SpecGen == Init /\ [][NextGen]_vars

\* direct calls of ring and of process_dataset, statement by statement
NextRing ==
    \/ RingCall
    \/ ProcessDatasetCall
    \/ Subsample
    \/ Sort
    \/ FilterAndReverse

SpecRing == Init /\ [][NextRing]_vars

\* a RingDatasetGenerator dataset, split, and its loaders iterated
NextSplit ==
    \/ NewRingDatasetGenerator(0..MaxLen, {gap_default}, {"None"})
    \/ Split(Samplers, Percentages)
    \/ Iterate

SpecSplit == Init /\ [][NextSplit]_vars

\* a RingDatasetGenerator dataset of up to MaxN rows, split
NextSplitWide ==
    \/ NewRingDatasetGenerator(0..MaxN, {gap_default}, {"None"})
    \/ Split(Samplers, Percentages)

SpecSplitWide == Init /\ [][NextSplitWide]_vars

\* a RingDataGenerator dataset, split with the default split_percentages
NextRingSplit ==
    \/ NewRingDataGenerator(0..MaxRingSamples, {gap_default}, SaveDirs)
    \/ Split(Samplers, {split_percentages_default})

SpecRingSplit == Init /\ [][NextRingSplit]_vars

(***************************************************************************)
(* Properties.                                                             *)
(***************************************************************************)
IsPermutationOf(s, t) ==
    /\ Len(s) = Len(t)
    /\ \A v \in Range(s) \cup Range(t) : Count(s, v) = Count(t, v)

\* C1: for every even n, balanced_permutation(n) returns a sequence of
\* length n holding each index of [0, n) exactly once, with an even value at
\* every position 2i and an odd value at every position 2i + 1.
C1_BalancedPermutationAlternates ==
    (call = "balanced_permutation" /\ args.len_indices % 2 = 0) =>
        /\ raised = "none"
        /\ Len(result) = args.len_indices
        /\ \A v \in 0..(args.len_indices - 1) : Count(result, v) = 1
        /\ \A i \in 0..(args.len_indices \div 2 - 1) :
              result[2 * i + 1] % 2 = 0 /\ result[2 * i + 2] % 2 = 1

C1_Witness ==
    /\ call = "balanced_permutation"
    /\ raised = "none"
    /\ Len(result) >= 4
    /\ result # permuted_indices

\* the class region a point of RingDatasetGenerator was sampled for: 0 for
\* the disk of radius limit, 1 for the annulus from 1 - limit to 1
RegionOf(pt, g) ==
    IF pt.lo = 0 /\ pt.hi = Unit - g THEN 0
    ELSE IF pt.lo = Unit + g /\ pt.hi = 2 * Unit THEN 1
    ELSE 2

C6_OddCountFails ==
    /\ (call = "balanced_permutation" /\ args.len_indices % 2 = 1) =>
          /\ raised = "AssertionError"
          /\ result = <<>>
    /\ (call = "RingDatasetGenerator" /\ args.sample_no % 2 = 1) =>
          /\ raised = "AssertionError"
          /\ draws = 0
          /\ ~exists
          /\ inputs = <<>>
          /\ targets = <<>>
          /\ archive = <<>>

C6_Witness ==
    /\ call = "RingDatasetGenerator"
    /\ args.sample_no % 2 = 1
    /\ args.sample_no >= 3
    /\ args.save_dir = "dir"
    /\ raised = "AssertionError"

C7_SameOrderEveryEpoch ==
    (call = "iter" /\ raised = "none") =>
        /\ last_order = first_order
        /\ first_order = loaders.index[loader]

\* C7 amended: every epoch draws a new order.  An epoch that yields, yields
\* every index of the partition exactly once (the first and the latest epoch
\* are both permutations of the partition); an epoch fails, yielding nothing,
\* only for BalancedSubsetRandomSampler over a partition of odd length.
C7_EpochIsPermutationOfPartition ==
    (call = "iter") =>
        IF raised = "none"
        THEN /\ IsPermutationOf(last_order, loaders.index[loader])
             /\ IsPermutationOf(first_order, loaders.index[loader])
        ELSE /\ loaders.sampler = "BalancedSubsetRandomSampler"
             /\ Len(loaders.index[loader]) % 2 = 1
             /\ epoch = 1 => first_order = <<>> /\ last_order = <<>>

C7_Witness ==
    /\ call = "iter"
    /\ raised = "none"
    /\ loaders.sampler = "BalancedSubsetRandomSampler"
    /\ epoch = 2
    /\ Len(loaders.index[loader]) = 4
    /\ last_order # first_order
    /\ first_order # loaders.index[loader]

\* C8: for every list of indices given to BalancedSubsetRandomSampler, of
\* even or odd length, one full iteration completes and yields every element
\* of the list exactly once, as many elements as len(sampler).
C8_BalancedSamplerIterates ==
    (call = "iter" /\ loaders.sampler = "BalancedSubsetRandomSampler") =>
        /\ raised = "none"
        /\ Len(last_order) = Len(loaders.index[loader])
        /\ IsPermutationOf(last_order, loaders.index[loader])

\* C9: for a RingDataGenerator dataset (M rows of target 0, then M rows of
\* target 1) the permutation of split alternates the two targets: the rows
\* at permutation positions 2i and 2i + 1 have different targets.
C9_RingSplitAlternatesTargets ==
    (call = "split" /\ raised = "none") =>
        \A i \in 0..(Len(inputs) \div 2 - 1) :
            targets[indices[2 * i + 1] + 1] # targets[indices[2 * i + 2] + 1]

\* C10: a RingDatasetGenerator dataset has target 0 at every even position
\* and target 1 at every odd position; the permutation of split then
\* alternates the targets 0, 1, 0, 1, ..., and in each of the train, dev and
\* test index lists the rows of target 0 and of target 1 differ in number by
\* at most 1.
C10_SplitKeepsClassBalance ==
    /\ (call = "RingDatasetGenerator" /\ raised = "none") =>
          \A i \in 1..Len(targets) : targets[i] = (i - 1) % 2
    /\ (call = "split" /\ raised = "none") =>
          /\ \A i \in 1..Len(targets) : targets[i] = (i - 1) % 2
          /\ \A j \in 1..Len(indices) : targets[indices[j] + 1] = (j - 1) % 2
          /\ \A k \in 1..3 :
                LET t == Take(targets, loaders.index[k])
                IN  /\ Count(t, 0) - Count(t, 1) <= 1
                    /\ Count(t, 1) - Count(t, 0) <= 1

C10_Witness ==
    /\ call = "split"
    /\ raised = "none"
    /\ Len(inputs) = 6
    /\ Len(loaders.index[1]) = 3
    /\ Len(loaders.index[2]) = 1
    /\ Len(loaders.index[3]) = 2
    /\ inputs[1].k # 0
    /\ indices # <<0, 1, 2, 3, 4, 5>>

\* C4: ring gives every sample one outcome fixed by its norm: label 0 when
\* norm < inner_radius, label 1 when inner_radius + gap < norm <
\* outer_radius, and NaN in every other case, the boundary values of the
\* norm included; no label is left unassigned.
C4_RingLabelsDefinite ==
    (call = "ring" /\ raised = "none") =>
        \A i \in 1..Len(samples) :
            labels[i] =
                IF norm_lt(samples[i], args.inner_radius) THEN Label0
                ELSE IF /\ norm_gt(samples[i], args.inner_radius + args.gap)
                        /\ norm_lt(samples[i], args.outer_radius)
                THEN Label1
                ELSE NaN

\* C5: with M the smaller of the two lengths, process_dataset returns 2M
\* rows: the first M are M distinct rows of the class0 argument with target
\* 0, the last M are M distinct rows of the class1 argument with target 1.
C5_ProcessDatasetKeepsClasses ==
    (call = "process_dataset" /\ pc = "done") =>
        LET M == Min(Len(class0), Len(class1))
        IN  /\ Len(data) = 2 * M
            /\ Len(data_targets) = 2 * M
            /\ IsInjective(data)
            /\ \A i \in 1..M :
                  /\ data[i] \in Range(class0)
                  /\ data_targets[i] = 0
            /\ \A i \in (M + 1)..(2 * M) :
                  /\ data[i] \in Range(class1)
                  /\ data_targets[i] = 1

C5_Witness ==
    /\ call = "process_dataset"
    /\ pc = "done"
    /\ Len(class0) = 2
    /\ Len(class1) = 3
    /\ Len(data) = 4
    /\ data[3] = class1[3]
    /\ data[1].y >= 0
    /\ data[2].y < 0
====
